---- MODULE Spec2Model ----
(***************************************************************************)
(* Model of gemini_api.py: the intake function api_endpoint (create_queue  *)
(* then validation then create_cloud_task), the Cloud Tasks queue it talks *)
(* to, and the worker function api_call_worker with call_gemini.           *)
(*                                                                         *)
(* Strings are sequences of one-character strings.  A message built by an  *)
(* f-string is a sequence of segments, each segment a sequence of strings. *)
(***************************************************************************)
EXTENDS Integers, Sequences, FiniteSets, TLC

\* ---------------------------------------------------------------- bounds
NumProcs == 2
MaxRequests == 2
MaxAttempts == 2
MaxWorkerCalls == 3

Procs == 1..NumProcs

\* ----------------------------------------------------- Python str methods
startswith(s, p) == Len(s) >= Len(p) /\ SubSeq(s, 1, Len(p)) = p

endswith(s, p) == Len(s) >= Len(p) /\ SubSeq(s, Len(s) - Len(p) + 1, Len(s)) = p

GS_PREFIX == <<"g", "s", ":", "/", "/">>

MP4_SUFFIX == <<".", "m", "p", "4">>

\* ------------------------------------------------------------ input data
\* A Python value found under a JSON key: vt is its type, s what str() and
\* f-string formatting render for it.
StrVal(chars) == [vt |-> "str", s |-> chars]

IntVal == [vt |-> "int", s |-> <<"1", "2", "3">>]

NullVal == [vt |-> "null", s |-> <<"N", "o", "n", "e">>]

NoVal == [vt |-> "absent", s |-> <<>>]

UrlStrings ==
  { <<"g","s",":","/","/","b","/","a",".","m","p","4">>,
    <<"g","s",":","/","/",".","m","p","4">>,
    <<"h","t","t","p",":","/","/","b","/","a",".","m","p","4">>,
    <<"g","s",":","/","/","b","/","a",".","m","o","v">>,
    <<"g","s",":","/","/","b","/","a",".","M","P","4">>,
    <<"g","s">>,
    <<>> }

UrlValues == {StrVal(u) : u \in UrlStrings} \cup {IntVal, NullVal}

\* What request.get_json() can hand to a handler: None, a JSON object (items
\* are its keys, url the value under "url") or a JSON array (items are its
\* elements).
NullBody == [kind |-> "null", items |-> {}, url |-> NoVal]

DictBody(keys, v) == [kind |-> "dict", items |-> keys, url |-> v]

ListBody(elems) == [kind |-> "list", items |-> elems, url |-> NoVal]

UrlBodies == {DictBody({"url"}, v) : v \in UrlValues}

NoUrlBodies ==
  { NullBody, DictBody({}, NoVal), DictBody({"id"}, NoVal),
    ListBody({}), ListBody({"id"}), ListBody({"url"}) }

IntakeBodies == UrlBodies \cup NoUrlBodies

WorkerBodies ==
  UrlBodies \cup NoUrlBodies \cup {DictBody({"url", "id"}, v) : v \in UrlValues}

\* `if request_json` (lines 158, 188): None, {} and [] are falsy.
Truthy(j) == j.kind # "null" /\ j.items # {}

\* `"url" in request_json` (lines 158, 188): key of a dict, element of a list.
HasUrl(j) == "url" \in j.items

\* The body is a JSON object with a url field.
HasUrlField(j) == j.kind = "dict" /\ "url" \in j.items

\* The Validator policy on a url value.
ValidUrl(v) == v.vt = "str" /\ startswith(v.s, GS_PREFIX) /\ endswith(v.s, MP4_SUFFIX)

ValidBody(j) == HasUrlField(j) /\ ValidUrl(j.url)

\* ------------------------------------------------- external service errors
\* str(e) of the exception a Cloud Tasks / Vertex call raises, as words.
ErrText(code) ==
  CASE code = "NOT_FOUND" -> <<"404", "NOT_FOUND">>
    [] code = "ALREADY_EXISTS" -> <<"409", "ALREADY_EXISTS">>
    [] code = "UNAVAILABLE" -> <<"503", "UNAVAILABLE">>
    [] code = "TypeError" -> <<"list", "indices", "must", "be", "integers">>
    [] code = "AttributeError" -> <<"object", "has", "no", "attribute", "startswith">>
    [] OTHER -> <<code>>

\* `"NOT_FOUND" in str(e)` (line 128).
IsNotFound(msg) == \E i \in 1..Len(msg) : msg[i] = "NOT_FOUND"

\* ------------------------------------------------------------ call_gemini
GeminiOutcomes == {"OK", "UNAVAILABLE", "NOT_FOUND"}

\* Mutant: the except clause re-raises instead of returning the string.
call_gemini_reraise(video_url, o) ==
  IF o = "OK"
  THEN [raised |-> FALSE, result |-> << <<"GenerationResponse">> >>]
  ELSE [raised |-> TRUE,
        result |-> << <<"Gemini call failed for URL: ">>, video_url.s,
                      <<". Error: ">>, ErrText(o) >>]

\* call_gemini (lines 40-91): the whole body is inside try; every Exception
\* becomes the returned error string, which formats the url it was given.
call_gemini(video_url, o) ==
  IF o = "OK"
  THEN [raised |-> FALSE, result |-> << <<"GenerationResponse">> >>]
  ELSE [raised |-> FALSE,
        result |-> << <<"Gemini call failed for URL: ">>, video_url.s,
                      <<". Error: ">>, ErrText(o) >>]

\* -------------------------------------------------------- api_call_worker
NO_URL_MSG == << <<"Error: No URL provided in request body.">> >>

\* Mutant: a classifier failure is answered with 500.
api_call_worker_fail500(body, o) ==
  IF Truthy(body) /\ HasUrl(body) /\ body.kind = "dict"
  THEN [status |-> IF o = "OK" THEN 200 ELSE 500,
        resp |-> call_gemini(body.url, o).result, called |-> 1]
  ELSE [status |-> 400, resp |-> NO_URL_MSG, called |-> 0]

\* api_call_worker (lines 185-196), the whole handler.  request_json["url"]
\* on a list raises TypeError, caught at line 194 with video_url still None.
api_call_worker(body, o) ==
  IF Truthy(body) /\ HasUrl(body)
  THEN IF body.kind # "dict"
       THEN [status |-> 500,
             resp |-> << <<"Non-Gemini Error for URL: ">>, NullVal.s,
                         <<". Error: ">>, ErrText("TypeError") >>,
             called |-> 0]
       ELSE LET g == call_gemini(body.url, o) IN
            IF g.raised
            THEN [status |-> 500,
                  resp |-> << <<"Non-Gemini Error for URL: ">>, body.url.s,
                              <<". Error: ">>, ErrText(o) >>,
                  called |-> 1]
            ELSE [status |-> 200, resp |-> g.result, called |-> 1]
  ELSE [status |-> 400, resp |-> NO_URL_MSG, called |-> 0]

\* ------------------------------------------------- task payload transport
\* json.dumps of a value: a string in double quotes, None as null.
JsonEnc(v) ==
  CASE v.vt = "str" -> <<"\"">> \o v.s \o <<"\"">>
    [] v.vt = "null" -> <<"null">>
    [] OTHER -> v.s

JsonDec(seg) ==
  IF Len(seg) >= 2 /\ seg[1] = "\"" /\ seg[Len(seg)] = "\""
  THEN StrVal(SubSeq(seg, 2, Len(seg) - 1))
  ELSE IF seg = <<"null">> THEN NullVal ELSE [vt |-> "int", s |-> seg]

\* json.dumps({"url": url}).encode() (line 109).
json_dumps_url(v) == << <<"{", "\"url\"", ": ">>, JsonEnc(v), <<"}">> >>

\* request.get_json() of the worker on a task's body (line 187).
get_json(b) ==
  IF Len(b) = 3 /\ b[1] = <<"{", "\"url\"", ": ">> /\ b[3] = <<"}">>
  THEN DictBody({"url"}, JsonDec(b[2]))
  ELSE NullBody

\* ------------------------------------------------------------ api_endpoint
\* Mutant: the extension check is dropped.
Validate_noext(body) ==
  IF Truthy(body) /\ HasUrl(body)
  THEN IF body.kind # "dict"
       THEN [status |-> 500, resp |-> << <<"Error: ">>, ErrText("TypeError") >>]
       ELSE IF body.url.vt # "str"
       THEN [status |-> 500, resp |-> << <<"Error: ">>, ErrText("AttributeError") >>]
       ELSE IF ~startswith(body.url.s, GS_PREFIX)
       THEN [status |-> 400,
             resp |-> << <<"Error: URL must be a GCS path (start with gs://).">> >>]
       ELSE [status |-> 0, resp |-> <<>>]
  ELSE [status |-> 400, resp |-> NO_URL_MSG]

\* api_endpoint after create_queue returned, up to the call of
\* create_cloud_task (lines 157-170): status 0 means the url goes on to
\* create_cloud_task.  A list body or a non-string url raises inside the
\* try and is answered by line 173.
Validate(body) ==
  IF Truthy(body) /\ HasUrl(body)
  THEN IF body.kind # "dict"
       THEN [status |-> 500, resp |-> << <<"Error: ">>, ErrText("TypeError") >>]
       ELSE IF body.url.vt # "str"
       THEN [status |-> 500, resp |-> << <<"Error: ">>, ErrText("AttributeError") >>]
       ELSE IF ~startswith(body.url.s, GS_PREFIX)
       THEN [status |-> 400,
             resp |-> << <<"Error: URL must be a GCS path (start with gs://).">> >>]
       ELSE IF ~endswith(body.url.s, MP4_SUFFIX)
       THEN [status |-> 400,
             resp |-> << <<"Error: URL must point to an MP4 video file.">> >>]
       ELSE [status |-> 0, resp |-> <<>>]
  ELSE [status |-> 400, resp |-> NO_URL_MSG]

\* Mutant: the request is answered 202 whatever create_task did.
CreateTaskResponse_always202(o, task_name) ==
  [status |-> 202,
   resp |-> << <<"URL queued for processing. Task name: ">>, task_name >>]

\* api_endpoint around create_cloud_task (lines 167-173): the name the
\* queue returned goes into the 202 answer, an exception becomes 500.
CreateTaskResponse(o, task_name) ==
  IF o = "OK"
  THEN [status |-> 202,
        resp |-> << <<"URL queued for processing. Task name: ">>, task_name >>]
  ELSE [status |-> 500, resp |-> << <<"Error: ">>, ErrText(o) >>]

\* Mutant: every lookup exception is taken for an absent queue.
LookupDisposition_anyerror(o) == IF o = "OK" THEN "return" ELSE "create"

\* create_queue after get_queue (lines 124-140): create only when the
\* exception text has NOT_FOUND, otherwise log and return normally.
LookupDisposition(o) ==
  IF o = "OK" THEN "return"
  ELSE IF IsNotFound(ErrText(o)) THEN "create" ELSE "return"

\* ------------------------------------------------------------------ state
VARIABLES
  queues,       \* number of queues named QUEUE_CONFIG['queue_id'] in Cloud Tasks
  tasks,        \* the Tasks in the queue
  gone,         \* the Tasks the queue destroyed, and why
  nextId,       \* next task identifier the queue assigns
  nreq,         \* intake requests received so far
  pc,           \* position of each running api_endpoint invocation
  req,          \* per invocation: body, outcome of each external call, answer
  wreq,         \* the last direct api_call_worker invocation and its answer
  geminiCalls   \* call_gemini calls made by direct worker invocations

vars == <<queues, tasks, gone, nextId, nreq, pc, req, wreq, geminiCalls>>

intakeVars == <<queues, tasks, gone, nextId, nreq, pc, req>>

NoReq ==
  [body |-> NullBody, getq |-> "none", crq |-> "none", crt |-> "none",
   status |-> 0, resp |-> <<>>, added |-> {}]

NoWorkerReq ==
  [body |-> NullBody, outcome |-> "none", status |-> 0, resp |-> <<>>, called |-> 0]

Init ==
  /\ queues = 0
  /\ tasks = {}
  /\ gone = {}
  /\ nextId = 1
  /\ nreq = 0
  /\ pc = [p \in Procs |-> "idle"]
  /\ req = [p \in Procs |-> NoReq]
  /\ wreq = NoWorkerReq
  /\ geminiCalls = 0

\* --------------------------------------------------- Cloud Tasks outcomes
\* What each service call can answer in the current state of the service;
\* UNAVAILABLE stands for any transient or permission failure.
GetQueueOutcomes == IF queues > 0 THEN {"OK", "UNAVAILABLE"} ELSE {"NOT_FOUND", "UNAVAILABLE"}

CreateQueueOutcomes == IF queues > 0 THEN {"ALREADY_EXISTS", "UNAVAILABLE"} ELSE {"OK", "UNAVAILABLE"}

CreateTaskOutcomes == IF queues > 0 THEN {"OK", "UNAVAILABLE"} ELSE {"NOT_FOUND", "UNAVAILABLE"}

TaskName(id) == <<"tasks/", ToString(id)>>

\* The Task create_cloud_task builds (lines 104-111), as the queue stores it.
NewTask(id, url) ==
  [id |-> id, name |-> TaskName(id), body |-> json_dumps_url(url),
   attempts |-> 0, calls |-> 0, pending |-> 0]

\* The url a Task carries.
TaskUrl(t) == get_json(t.body).url

\* ------------------------------------------------------------ api_endpoint
\* create_queue has returned normally: api_endpoint goes on with lines
\* 157-170 and either answers or reaches create_cloud_task.
Continue(p, r) ==
  LET v == Validate(r.body) IN
  IF v.status = 0
  THEN /\ pc' = [pc EXCEPT ![p] = "create_task"]
       /\ req' = [req EXCEPT ![p] = r]
  ELSE /\ pc' = [pc EXCEPT ![p] = "done"]
       /\ req' = [req EXCEPT ![p] = [r EXCEPT !.status = v.status, !.resp = v.resp]]

\* A request arrives; api_endpoint calls create_queue, which calls
\* client.get_queue (lines 153-155, 120-128, 139-140).
GetQueue(p, body, o) ==
  /\ pc[p] = "idle"
  /\ nreq < MaxRequests
  /\ o \in GetQueueOutcomes
  /\ nreq' = nreq + 1
  /\ IF LookupDisposition(o) = "create"
     THEN /\ pc' = [pc EXCEPT ![p] = "create_queue"]
          /\ req' = [req EXCEPT ![p] = [NoReq EXCEPT !.body = body, !.getq = o]]
     ELSE Continue(p, [NoReq EXCEPT !.body = body, !.getq = o])
  /\ UNCHANGED <<queues, tasks, gone, nextId, wreq, geminiCalls>>

\* client.create_queue (lines 129-138); its exception is not caught in
\* create_queue and reaches the except of api_endpoint (lines 171-173).
CreateQueue(p, o) ==
  /\ pc[p] = "create_queue"
  /\ o \in CreateQueueOutcomes
  /\ IF o = "OK"
     THEN /\ queues' = queues + 1
          /\ Continue(p, [req[p] EXCEPT !.crq = o])
     ELSE /\ queues' = queues
          /\ pc' = [pc EXCEPT ![p] = "done"]
          /\ req' = [req EXCEPT ![p] = [@ EXCEPT !.crq = o, !.status = 500,
                                         !.resp = << <<"Error: ">>, ErrText(o) >>]]
  /\ UNCHANGED <<tasks, gone, nextId, nreq, wreq, geminiCalls>>

\* create_cloud_task (lines 94-115) and the answer of api_endpoint (167-173).
CreateTask(p, o) ==
  /\ pc[p] = "create_task"
  /\ o \in CreateTaskOutcomes
  /\ LET a == CreateTaskResponse(o, TaskName(nextId)) IN
     /\ pc' = [pc EXCEPT ![p] = "done"]
     /\ IF o = "OK"
        THEN /\ tasks' = tasks \cup {NewTask(nextId, req[p].body.url)}
             /\ nextId' = nextId + 1
             /\ req' = [req EXCEPT ![p] = [@ EXCEPT !.crt = o, !.status = a.status,
                                            !.resp = a.resp, !.added = {nextId}]]
        ELSE /\ UNCHANGED <<tasks, nextId>>
             /\ req' = [req EXCEPT ![p] = [@ EXCEPT !.crt = o, !.status = a.status,
                                            !.resp = a.resp]]
  /\ UNCHANGED <<queues, gone, nreq, wreq, geminiCalls>>

\* The answer has been sent; the instance is free for the next request.
Respond(p) ==
  /\ pc[p] = "done"
  /\ pc' = [pc EXCEPT ![p] = "idle"]
  /\ req' = [req EXCEPT ![p] = NoReq]
  /\ UNCHANGED <<queues, tasks, gone, nextId, nreq, wreq, geminiCalls>>

\* ------------------------------------------------ the queue and the worker
\* The queue POSTs the Task's body to api_call_worker, which handles it
\* (lines 185-196); the answer is on its way back to the queue.
Deliver(t, o) ==
  /\ t \in tasks
  /\ t.pending = 0
  /\ t.attempts < MaxAttempts
  /\ o \in GeminiOutcomes
  /\ LET w == api_call_worker(get_json(t.body), o) IN
     tasks' = (tasks \ {t}) \cup
              {[t EXCEPT !.attempts = @ + 1, !.calls = @ + w.called, !.pending = w.status]}
  /\ UNCHANGED <<queues, gone, nextId, nreq, pc, req, wreq, geminiCalls>>

\* The queue receives a 2xx answer and destroys the Task.
Ack(t) ==
  /\ t \in tasks
  /\ t.pending >= 200 /\ t.pending <= 299
  /\ tasks' = tasks \ {t}
  /\ gone' = gone \cup {[id |-> t.id, why |-> "acked", calls |-> t.calls]}
  /\ UNCHANGED <<queues, nextId, nreq, pc, req, wreq, geminiCalls>>

\* The answer is not 2xx, or does not reach the queue before the dispatch
\* deadline: the Task is retried, or destroyed when max_attempts is used up.
DeliveryFailed(t) ==
  /\ t \in tasks
  /\ t.pending # 0
  /\ IF t.attempts >= MaxAttempts
     THEN /\ tasks' = tasks \ {t}
          /\ gone' = gone \cup {[id |-> t.id, why |-> "exhausted", calls |-> t.calls]}
     ELSE /\ tasks' = (tasks \ {t}) \cup {[t EXCEPT !.pending = 0]}
          /\ gone' = gone
  /\ UNCHANGED <<queues, nextId, nreq, pc, req, wreq, geminiCalls>>

DeliverId(id) == \E t \in tasks, o \in GeminiOutcomes : t.id = id /\ Deliver(t, o)

SettleId(id) == \E t \in tasks : t.id = id /\ (Ack(t) \/ DeliveryFailed(t))

\* ------------------------------------------- direct calls of the worker
\* api_call_worker invoked with an arbitrary body (lines 176-196).
WorkerRequest(body, o) ==
  /\ geminiCalls < MaxWorkerCalls
  /\ LET w == api_call_worker(body, o) IN
     /\ wreq' = [body |-> body, outcome |-> o, status |-> w.status,
                 resp |-> w.resp, called |-> w.called]
     /\ geminiCalls' = geminiCalls + w.called
  /\ UNCHANGED intakeVars

\* --------------------------------------------------------- specifications
\* Concurrent api_endpoint invocations against the queue service.
Next ==
  \/ \E p \in Procs, body \in IntakeBodies, o \in {"OK", "NOT_FOUND", "UNAVAILABLE"} :
        GetQueue(p, body, o)
  \/ \E p \in Procs, o \in {"OK", "ALREADY_EXISTS", "UNAVAILABLE"} : CreateQueue(p, o)
  \/ \E p \in Procs, o \in {"OK", "NOT_FOUND", "UNAVAILABLE"} : CreateTask(p, o)
  \/ \E p \in Procs : Respond(p)

Spec == Init /\ [][Next]_vars

\* Intake requests whose create_queue calls do not overlap: a request is
\* taken only while no other invocation is between its lookup and its
\* creation.
SeqNext ==
  \/ \E p \in Procs, body \in IntakeBodies, o \in {"OK", "NOT_FOUND", "UNAVAILABLE"} :
        /\ \A q \in Procs \ {p} : pc[q] # "create_queue"
        /\ GetQueue(p, body, o)
  \/ \E p \in Procs, o \in {"OK", "ALREADY_EXISTS", "UNAVAILABLE"} : CreateQueue(p, o)
  \/ \E p \in Procs, o \in {"OK", "NOT_FOUND", "UNAVAILABLE"} : CreateTask(p, o)
  \/ \E p \in Procs : Respond(p)

SeqSpec == Init /\ [][SeqNext]_vars

\* One api_endpoint instance feeding the queue, and the queue delivering
\* the Tasks to api_call_worker.
QueueBodies ==
  { DictBody({"url"}, StrVal(<<"g","s",":","/","/","b","/","a",".","m","p","4">>)),
    DictBody({"url"}, StrVal(<<"g","s",":","/","/",".","m","p","4">>)),
    DictBody({"url"}, StrVal(<<"g","s",":","/","/","b","/","a",".","m","o","v">>)) }

QueueNext ==
  \/ \E body \in QueueBodies, o \in {"OK", "NOT_FOUND", "UNAVAILABLE"} : GetQueue(1, body, o)
  \/ \E o \in {"OK", "ALREADY_EXISTS", "UNAVAILABLE"} : CreateQueue(1, o)
  \/ \E o \in {"OK", "NOT_FOUND", "UNAVAILABLE"} : CreateTask(1, o)
  \/ Respond(1)
  \/ \E t \in tasks, o \in GeminiOutcomes : Deliver(t, o)
  \/ \E t \in tasks : Ack(t)
  \/ \E t \in tasks : DeliveryFailed(t)

QueueSpec == Init /\ [][QueueNext]_vars

\* The queue keeps dispatching and settling every Task it holds.
FairSpec ==
  /\ QueueSpec
  /\ \A id \in 1..MaxRequests : WF_vars(DeliverId(id)) /\ WF_vars(SettleId(id))

WorkerNext == \E body \in WorkerBodies, o \in GeminiOutcomes : WorkerRequest(body, o)

WorkerSpec == Init /\ [][WorkerNext]_vars

TypeOK ==
  /\ queues \in 0..1
  /\ nextId \in 1..(MaxRequests + 1)
  /\ nreq \in 0..MaxRequests
  /\ \A p \in Procs : pc[p] \in {"idle", "create_queue", "create_task", "done"}

\* ------------------------------------------------------------- properties
Done(p) == pc[p] = "done"

InQueue(id) == \E t \in tasks : t.id = id

\* Bodies the 400 rule is stated for: no url at all, or a string url that
\* fails the scheme or the extension rule.
ClaimedInvalid(j) ==
  \/ j.kind = "null"
  \/ j.kind = "dict" /\ ~HasUrl(j)
  \/ HasUrlField(j) /\ j.url.vt = "str" /\ ~ValidUrl(j.url)

\* C1: every Task in the queue carries a url that starts with gs:// and
\* ends with .mp4; a url that fails the policy never reaches create_task.
C1_QueuedUrlsValid ==
  /\ \A t \in tasks : ValidUrl(TaskUrl(t))
  /\ \A p \in Procs : (pc[p] = "create_task" \/ req[p].crt # "none") => ValidBody(req[p].body)

C1_Witness ==
  /\ \E t \in tasks : ValidUrl(TaskUrl(t))
  /\ \E p \in Procs : /\ Done(p)
                      /\ HasUrlField(req[p].body)
                      /\ req[p].body.url.vt = "str"
                      /\ startswith(req[p].body.url.s, GS_PREFIX)
                      /\ ~endswith(req[p].body.url.s, MP4_SUFFIX)
                      /\ req[p].status = 400

\* C2: no get_queue, create_queue or create_task call is issued for a
\* request whose url is missing or fails validation.
C2_ValidationBeforeCalls ==
  \A p \in Procs :
    (pc[p] # "idle" /\ ~ValidBody(req[p].body)) =>
      (req[p].getq = "none" /\ req[p].crq = "none" /\ req[p].crt = "none")

\* C3: when the lookup fails with anything but not-found, the request (its
\* url being valid, so that no 400 rule applies) ends with 500, with no
\* creation attempted and no Task enqueued.
C3_LookupFailureSurfaced ==
  \A p \in Procs :
    (Done(p) /\ ValidBody(req[p].body) /\ req[p].getq = "UNAVAILABLE") =>
      (req[p].status = 500 /\ req[p].crq = "none" /\ req[p].added = {})

\* C4: a caller whose creation fails with "queue already exists" goes on:
\* its request is not failed and, its url being valid, reaches create_task.
C4_AlreadyExistsTolerated ==
  \A p \in Procs :
    (Done(p) /\ req[p].crq = "ALREADY_EXISTS") =>
      (req[p].status # 500 /\ (ValidBody(req[p].body) => req[p].crt # "none"))

\* C5: a request with no url, a wrong scheme or a wrong extension is
\* answered 400 whatever the queue service does.
C5_InvalidIs400 ==
  \A p \in Procs :
    (Done(p) /\ ClaimedInvalid(req[p].body)) => req[p].status = 400

\* C6: a request with a valid url is answered 202 iff create_task
\* succeeded; the step that answers 202 adds exactly one Task, which
\* carries the url and whose name is in the answer; any other answer adds
\* no Task.
C6_EnqueueIffCreateTask ==
  /\ [](\A p \in Procs :
         (Done(p) /\ ValidBody(req[p].body)) =>
           /\ req[p].status = 202 <=> req[p].crt = "OK"
           /\ req[p].status = 202 => Cardinality(req[p].added) = 1
           /\ req[p].status # 202 => req[p].added = {})
  /\ [][\A p \in Procs :
         (pc[p] # "done" /\ pc'[p] = "done" /\ ValidBody(req'[p].body)) =>
           IF req'[p].status = 202
           THEN \E t \in tasks' \ tasks :
                  /\ tasks' = tasks \cup {t}
                  /\ TaskUrl(t) = req'[p].body.url
                  /\ req'[p].added = {t.id}
                  /\ req'[p].resp = << <<"URL queued for processing. Task name: ">>, t.name >>
           ELSE tasks' = tasks]_vars

C6_Witness ==
  \E p \in Procs :
    /\ Done(p) /\ ValidBody(req[p].body) /\ req[p].status = 202
    /\ \E t \in tasks : t.id \in req[p].added /\ TaskUrl(t) = req[p].body.url
    /\ \E q \in Procs : Done(q) /\ ValidBody(req[q].body) /\ req[q].status = 500

\* C7: a worker invocation whose body has no url field is answered 400
\* and does not call call_gemini.
C7_NoUrlIs400 ==
  (wreq.outcome # "none" /\ ~HasUrlField(wreq.body)) =>
    (wreq.status = 400 /\ wreq.called = 0)

\* C8: a worker invocation whose body has a url is answered 200 whether
\* call_gemini succeeds or fails, and on failure the answer is the error
\* string with the url in it.
C8_UrlIs200 ==
  (wreq.outcome # "none" /\ HasUrlField(wreq.body)) =>
    /\ wreq.status = 200
    /\ wreq.called = 1
    /\ wreq.outcome # "OK" =>
         /\ wreq.resp[1] = <<"Gemini call failed for URL: ">>
         /\ \E i \in 1..Len(wreq.resp) : wreq.resp[i] = wreq.body.url.s

C8_Witness ==
  /\ wreq.outcome = "UNAVAILABLE"
  /\ ValidBody(wreq.body)
  /\ wreq.status = 200

\* C9 as stated: no Task causes more than one call_gemini call.
C9_ExactlyOnce ==
  /\ \A t \in tasks : t.calls <= 1
  /\ \A g \in gone : g.calls = 1

\* C9 amended: every delivery of a Task makes one call_gemini call and is
\* answered 200; a Task is delivered at least once and at most MaxAttempts
\* times before the queue destroys it, on the acknowledged 200 or when the
\* answers were lost and the attempts are used up; under fair delivery
\* every Task leaves the queue.
C9_AtLeastOnce ==
  /\ [](\A t \in tasks : /\ t.calls = t.attempts
                         /\ t.attempts <= MaxAttempts
                         /\ t.pending \in {0, 200}
                         /\ t.pending = 200 => t.calls >= 1)
  /\ [](\A g \in gone : /\ g.calls >= 1
                        /\ g.calls <= MaxAttempts
                        /\ g.why = "exhausted" => g.calls = MaxAttempts)
  /\ \A id \in 1..MaxRequests :
       InQueue(id) ~> (~InQueue(id) /\ \E g \in gone : g.id = id)

C9_Witness ==
  /\ \E g \in gone : g.why = "acked" /\ g.calls = 1
  /\ \E g \in gone : g.why = "exhausted"

\* C10: with create_queue calls one after the other, a creation is issued
\* only after a lookup that failed with not-found, a lookup that finds the
\* queue returns with no creation, no call started while the queue exists
\* creates or fails, creation never fails with "already exists", and there
\* is never more than one queue of the configured name.
C10_EnsureQueueIdempotent ==
  /\ [](\A p \in Procs :
         /\ (pc[p] = "create_queue" \/ req[p].crq # "none") => req[p].getq = "NOT_FOUND"
         /\ req[p].getq = "OK" => (pc[p] # "create_queue" /\ req[p].crq = "none")
         /\ req[p].crq # "ALREADY_EXISTS")
  /\ [](queues <= 1)
  /\ [][\A p \in Procs :
         (queues > 0 /\ pc[p] = "idle" /\ pc'[p] # "idle") =>
           (pc'[p] # "create_queue" /\ req'[p].crq = "none" /\ queues' = queues)]_vars

C10_Witness ==
  /\ queues = 1
  /\ \E p \in Procs : pc[p] # "idle" /\ req[p].crq = "OK"
  /\ \E p \in Procs : pc[p] # "idle" /\ req[p].getq = "OK" /\ req[p].crq = "none"

====
